---- MODULE Spec2Model ----
(***************************************************************************)
(* sitk-cli: translation of a function signature into a command line       *)
(* signature (lib.make_cli, parameters.build_cli_signature), the           *)
(* classification of Image/Transform parameters (introspection, batch)     *)
(* and the run-time behaviour of the wrapper make_cli returns.             *)
(***************************************************************************)
EXTENDS Integers, Sequences, FiniteSets, TLC

VARIABLES
    func,    \* the function handed to make_cli / build_cli_signature
    opts,    \* make_cli's keyword arguments: verbose, overwrite, create_dirs
    phase,   \* "declared" until a translation has been applied, then its name
    cli,     \* what lib.make_cli built: the new signature and the closure's lists
    sig,     \* what parameters.build_cli_signature built (CLISignatureInfo)
    bat,     \* the classification batch.create_batch_command computed
    files,   \* the files that exist on disk
    dirs,    \* the directories that exist on disk (the root always exists)
    level,   \* the level of the package logger "sitk_cli"
    last     \* the record of the latest call of the wrapper

vars == <<func, opts, phase, cli, sig, bat, files, dirs, level, last>>

(***************************************************************************)
(* Bounds                                                                  *)
(***************************************************************************)
MaxParams == 2
MaxVerbose == 3
MaxNameLen == 4
MaxFiles == 2

(***************************************************************************)
(* Annotations.  An annotation is the object a type hint evaluates to:     *)
(* origin is what typing.get_origin returns ("none" for a plain object)    *)
(* and args what typing.get_args returns; a plain object is its own single *)
(* arg.  "empty" is inspect.Parameter.empty (no annotation), "not_a_type"  *)
(* an object that is no class.                                             *)
(***************************************************************************)
Plain(t) == [origin |-> "none", args |-> <<t>>]
UnionOf(ts) == [origin |-> "Union", args |-> ts]
Generic(o, ts) == [origin |-> o, args |-> ts]

PathType == Plain("Path")
NoReturn == Plain("None")

ParamAnnotations ==
    { Plain("Image"), Plain("AffineTransform"), Plain("int"),
      Plain("not_a_type"), Plain("empty"),
      UnionOf(<<"Image", "NoneType">>), UnionOf(<<"NoneType", "Transform">>),
      UnionOf(<<"Image", "int", "NoneType">>),
      Generic("list", <<"Image">>) }

ReturnAnnotations ==
    { Plain("AffineTransform"), Plain("int"), UnionOf(<<"Image", "NoneType">>),
      Plain("None") }

ParamNames == <<"p1", "p2", "p3", "p4">>
Defaults == {"empty", "None", "value"}
Kinds == {"POSITIONAL_OR_KEYWORD", "KEYWORD_ONLY"}

\* isinstance(t, type) / inspect.isclass(t) for a plain object
IsClass(t) == t # "not_a_type"

\* issubclass(t, sitk.Image), issubclass(t, sitk.Transform)
IsImageClass(t) == t = "Image"
IsTransformClass(t) == t \in {"Transform", "AffineTransform"}
IsSitkClass(t) == IsImageClass(t) \/ IsTransformClass(t)

\* The elements of a list.
Range(seq) == { seq[i] : i \in 1..Len(seq) }

\* [t for t in args if t is not type(None)]
NonNoneTypes(args) == SelectSeq(args, LAMBDA t : t # "NoneType")

(***************************************************************************)
(* The functions a caller can declare.  Python itself rejects a parameter  *)
(* without default after one with a default, and a positional parameter    *)
(* after a keyword-only one.                                               *)
(***************************************************************************)
ParamDecls == [annotation : ParamAnnotations, default : Defaults, kind : Kinds]

Named(ds) ==
    [i \in 1..Len(ds) |->
        [name |-> ParamNames[i], annotation |-> ds[i].annotation,
         default |-> ds[i].default, kind |-> ds[i].kind]]

ValidParams(ps) ==
    \A i, j \in 1..Len(ps) :
        i < j =>
            /\ ~(ps[i].kind = "KEYWORD_ONLY" /\ ps[j].kind = "POSITIONAL_OR_KEYWORD")
            /\ ~(/\ ps[i].kind = "POSITIONAL_OR_KEYWORD"
                 /\ ps[j].kind = "POSITIONAL_OR_KEYWORD"
                 /\ ps[i].default # "empty"
                 /\ ps[j].default = "empty")

ParamLists ==
    { Named(ds) : ds \in { d \in UNION { [1..n -> ParamDecls] : n \in 0..MaxParams } :
                            ValidParams(d) } }

Funcs == [params : ParamLists, ret : ReturnAnnotations]

Overwrites == {"True", "False", "prompt"}
Options == [verbose : BOOLEAN, overwrite : Overwrites, create_dirs : BOOLEAN]
DefaultOptions == [verbose |-> FALSE, overwrite |-> "True", create_dirs |-> TRUE]

VERBOSE_PARAM_NAME == "_verbose"
FORCE_PARAM_NAME == "_force"
DEFAULT_OUTPUT_ARG_NAME == "output"

\* create_batch_command's output_stem argument: None, the name of a parameter,
\* or a name the function does not declare.
OutputStems == {"None", "nonexistent"} \cup { ParamNames[i] : i \in 1..MaxParams }

\* A file name template is the sequence of its characters and placeholders.
DefaultTemplate == <<"{stem}", "{suffix}">>

(***************************************************************************)
(* introspection.py                                                        *)
(***************************************************************************)
\* parse_annotation: the first non-None argument of any annotation that has an
\* origin, the annotation itself otherwise.
parse_annotation(annotation) ==
    IF annotation.origin # "none" /\ Len(NonNoneTypes(annotation.args)) > 0
    THEN Plain(Head(NonNoneTypes(annotation.args)))
    ELSE annotation

\* resolve_optional_type: (resolved_type, is_optional)
resolve_optional_type(annotation, has_default) ==
    IF annotation.origin # "none" /\ Len(NonNoneTypes(annotation.args)) = 1
    THEN [type |-> Plain(Head(NonNoneTypes(annotation.args))), optional |-> TRUE]
    ELSE [type |-> annotation, optional |-> has_default]

\* The loop body of find_image_transform_params for one parameter:
\* whether it is recorded, with which type, and whether it is optional.
classify_param(param) ==
    LET r == resolve_optional_type(param.annotation, param.default # "empty")
        t == r.type.args[1]
        plain == r.type.origin = "none"
    IN  IF param.annotation = Plain("empty")
        THEN [found |-> FALSE, type |-> "empty", optional |-> FALSE]
        ELSE IF plain /\ (t = "Image" \/ t = "Transform")
        THEN [found |-> TRUE, type |-> t, optional |-> r.optional]
        ELSE IF plain /\ IsClass(t) /\ IsSitkClass(t)
        THEN [found |-> TRUE, type |-> t, optional |-> r.optional]
        ELSE [found |-> FALSE, type |-> "empty", optional |-> FALSE]

\* find_image_transform_params: (image_transform_params, optional_params);
\* the dict is kept as the sequence of its items, in insertion order.
find_image_transform_params(params) ==
    LET found == SelectSeq(params, LAMBDA p : classify_param(p).found)
    IN  [image_transform_params |->
            [i \in 1..Len(found) |->
                [name |-> found[i].name, type |-> classify_param(found[i]).type]],
         optional_params |->
            { found[i].name : i \in { k \in 1..Len(found) :
                                        classify_param(found[k]).optional } }]

(***************************************************************************)
(* inspect.Signature's validation of a parameter list (what                *)
(* func_sig.replace(parameters=...) runs): kinds in order, and no          *)
(* parameter without default after one with a default.                     *)
(***************************************************************************)
ValidSignature(ps) ==
    /\ \A i, j \in 1..Len(ps) :
        i < j =>
            /\ ~(ps[i].kind = "KEYWORD_ONLY" /\ ps[j].kind = "POSITIONAL_OR_KEYWORD")
            /\ ~(/\ ps[i].kind = "POSITIONAL_OR_KEYWORD"
                 /\ ps[j].kind = "POSITIONAL_OR_KEYWORD"
                 /\ ps[i].default # "empty"
                 /\ ps[j].default = "empty")
    /\ \A i, j \in 1..Len(ps) : i # j => ps[i].name # ps[j].name

Parameter(name, kind, annotation, default) ==
    [name |-> name, kind |-> kind, annotation |-> annotation, default |-> default]

\* The --verbose / --force parameters both translators append.
VerboseParam(kind) == Parameter(VERBOSE_PARAM_NAME, kind, Plain("int"), "Option(0)")
ForceParam(kind) == Parameter(FORCE_PARAM_NAME, kind, Plain("bool"), "Option(False)")

\* A return annotation that makes the translators add the output parameter.
ReturnsSitk(ret) ==
    LET return_type == parse_annotation(ret)
    IN  /\ return_type.origin = "none"
        /\ IsClass(return_type.args[1])
        /\ IsSitkClass(return_type.args[1])

(***************************************************************************)
(* lib.py: make_cli                                                        *)
(***************************************************************************)
\* isclass(annotation) and issubclass(annotation, (sitk.Image, sitk.Transform))
\* on the parsed annotation of a parameter
lib_is_sitk(p) ==
    LET annotation == parse_annotation(p.annotation)
    IN  /\ annotation.origin = "none"
        /\ IsClass(annotation.args[1])
        /\ IsSitkClass(annotation.args[1])

\* make_cli._translate_param
lib_translate_param(p) ==
    LET annotation == parse_annotation(p.annotation)
        is_keyword_only == p.kind = "KEYWORD_ONLY"
    IN  IF lib_is_sitk(p)
        THEN Parameter(p.name, "POSITIONAL_OR_KEYWORD", PathType,
                 IF is_keyword_only
                 THEN (IF p.default = "None" THEN "Option(None)" ELSE "Option(...)")
                 ELSE IF p.default = "empty" THEN "Argument(...)"
                 ELSE IF p.default = "None" THEN "Option(None)"
                 ELSE "Option(...)")
        ELSE IF p.default = "empty"
        THEN Parameter(p.name, "POSITIONAL_OR_KEYWORD", annotation, "Option(...)")
        ELSE Parameter(p.name, "POSITIONAL_OR_KEYWORD", annotation, p.default)

\* The nonlocal flags and lists _translate_param fills while it runs.
lib_image_args(params) ==
    LET sel == SelectSeq(params, LAMBDA p :
                   lib_is_sitk(p) /\ IsImageClass(parse_annotation(p.annotation).args[1]))
    IN  [i \in 1..Len(sel) |-> sel[i].name]

lib_transform_args(params) ==
    LET sel == SelectSeq(params, LAMBDA p :
                   lib_is_sitk(p) /\ ~IsImageClass(parse_annotation(p.annotation).args[1]))
    IN  [i \in 1..Len(sel) |-> sel[i].name]

lib_has_positional_input(params) ==
    \E i \in 1..Len(params) :
        /\ lib_is_sitk(params[i])
        /\ params[i].kind # "KEYWORD_ONLY"
        /\ params[i].default = "empty"

lib_has_any_image_transform_input(params) ==
    \E i \in 1..Len(params) : lib_is_sitk(params[i])

\* The default of the output parameter make_cli appends.
lib_output_default(params) ==
    IF lib_has_positional_input(params) \/ ~lib_has_any_image_transform_input(params)
    THEN "Argument(...)"
    ELSE "None"

\* Whether make_cli appends the --force flag.
lib_adds_force(overwrite) == overwrite # "True"

\* Whether make_cli appends the --verbose flag.
lib_adds_verbose(verbose) == verbose

make_cli(f, o) ==
    LET translated == [i \in 1..Len(f.params) |-> lib_translate_param(f.params[i])]
        has_output == ReturnsSitk(f.ret)
        with_output ==
            IF has_output
            THEN Append(translated,
                        Parameter(DEFAULT_OUTPUT_ARG_NAME, "POSITIONAL_OR_KEYWORD",
                                  PathType, lib_output_default(f.params)))
            ELSE translated
        with_verbose ==
            IF lib_adds_verbose(o.verbose)
            THEN Append(with_output, VerboseParam("POSITIONAL_OR_KEYWORD"))
            ELSE with_output
        params ==
            IF lib_adds_force(o.overwrite)
            THEN Append(with_verbose, ForceParam("POSITIONAL_OR_KEYWORD"))
            ELSE with_verbose
    IN  [built |-> TRUE,
         error |-> IF ValidSignature(params) THEN "none" ELSE "ValueError",
         params |-> params,
         return_annotation |-> IF has_output THEN NoReturn ELSE parse_annotation(f.ret),
         has_output |-> has_output,
         image_args |-> lib_image_args(f.params),
         transform_args |-> lib_transform_args(f.params)]

(***************************************************************************)
(* parameters.py                                                           *)
(***************************************************************************)
\* Mutant: the output is positional only when an input is; generator functions
\* without Image/Transform input are forgotten.
determine_output_param_config_no_generator(has_positional_input, has_any_image_transform_input, has_any_positional_or_keyword) ==
    [default |-> IF has_positional_input THEN "Argument(...)" ELSE "None",
     kind |-> IF ~has_any_positional_or_keyword
              THEN "KEYWORD_ONLY" ELSE "POSITIONAL_OR_KEYWORD"]

\* determine_output_param_config: the output parameter's default and kind
determine_output_param_config(has_positional_input, has_any_image_transform_input, has_any_positional_or_keyword) ==
    [default |-> IF has_positional_input \/ ~has_any_image_transform_input
                 THEN "Argument(...)" ELSE "None",
     kind |-> IF ~has_any_positional_or_keyword
              THEN "KEYWORD_ONLY" ELSE "POSITIONAL_OR_KEYWORD"]

\* translate_image_transform_param: TranslatedParam(parameter, is_positional)
translate_image_transform_param(param, is_optional) ==
    LET is_keyword_only == param.kind = "KEYWORD_ONLY"
    IN  IF is_keyword_only
        THEN [parameter |-> Parameter(param.name, "KEYWORD_ONLY", PathType,
                                IF is_optional THEN "Option(None)" ELSE "Option(...)"),
              is_positional |-> FALSE]
        ELSE IF param.default = "empty" /\ ~is_optional
        THEN [parameter |-> Parameter(param.name, "POSITIONAL_OR_KEYWORD", PathType,
                                "Argument(...)"),
              is_positional |-> TRUE]
        ELSE IF is_optional
        THEN [parameter |-> Parameter(param.name, "POSITIONAL_OR_KEYWORD", PathType,
                                "Option(None)"),
              is_positional |-> FALSE]
        ELSE [parameter |-> Parameter(param.name, "POSITIONAL_OR_KEYWORD", PathType,
                                "Option(...)"),
              is_positional |-> FALSE]

\* The body of build_cli_signature's loop for one parameter: the new parameter.
sig_translate(param, itp) ==
    LET names == { itp.image_transform_params[i].name :
                     i \in 1..Len(itp.image_transform_params) }
    IN  IF param.name \in names
        THEN translate_image_transform_param(
                 param, param.name \in itp.optional_params).parameter
        ELSE IF param.default = "empty"
        THEN Parameter(param.name, param.kind, parse_annotation(param.annotation),
                       "Option(...)")
        ELSE Parameter(param.name, param.kind, parse_annotation(param.annotation),
                       param.default)

\* Whether build_cli_signature appends the --force flag.
sig_adds_force(overwrite) == overwrite # "True"

\* Whether build_cli_signature appends the --verbose flag.
sig_adds_verbose(verbose) == verbose

build_cli_signature(f, o) ==
    LET itp == find_image_transform_params(f.params)
        itps == itp.image_transform_params
        names == { itps[i].name : i \in 1..Len(itps) }
        TypeOf(n) == (CHOOSE i \in 1..Len(itps) : itps[i].name = n)
        translated == [i \in 1..Len(f.params) |-> sig_translate(f.params[i], itp)]
        image_sel == SelectSeq(itps, LAMBDA e : IsImageClass(e.type))
        transform_sel == SelectSeq(itps, LAMBDA e : ~IsImageClass(e.type))
        has_positional_input ==
            \E i \in 1..Len(f.params) :
                /\ f.params[i].name \in names
                /\ translate_image_transform_param(
                       f.params[i], f.params[i].name \in itp.optional_params).is_positional
        has_any_image_transform_input == Len(itps) > 0
        positional_params == SelectSeq(translated, LAMBDA p : p.kind # "KEYWORD_ONLY")
        keyword_only_params == SelectSeq(translated, LAMBDA p : p.kind = "KEYWORD_ONLY")
        has_any_positional_or_keyword == Len(positional_params) > 0
        has_output == ReturnsSitk(f.ret)
        config == determine_output_param_config(
                      has_positional_input, has_any_image_transform_input,
                      has_any_positional_or_keyword)
        output_param == Parameter(DEFAULT_OUTPUT_ARG_NAME, config.kind, PathType,
                                  config.default)
        flag_kind == IF ~has_any_positional_or_keyword
                     THEN "KEYWORD_ONLY" ELSE "POSITIONAL_OR_KEYWORD"
        base ==
            positional_params
            \o (IF has_output /\ output_param.kind # "KEYWORD_ONLY"
                THEN <<output_param>> ELSE <<>>)
            \o keyword_only_params
            \o (IF has_output /\ output_param.kind = "KEYWORD_ONLY"
                THEN <<output_param>> ELSE <<>>)
        params ==
            base
            \o (IF sig_adds_verbose(o.verbose) THEN <<VerboseParam(flag_kind)>> ELSE <<>>)
            \o (IF sig_adds_force(o.overwrite) THEN <<ForceParam(flag_kind)>> ELSE <<>>)
    IN  [built |-> TRUE,
         error |-> IF ValidSignature(params) THEN "none" ELSE "ValueError",
         params |-> params,
         return_annotation |-> IF has_output THEN NoReturn ELSE parse_annotation(f.ret),
         has_output |-> has_output,
         image_args |-> [i \in 1..Len(image_sel) |-> image_sel[i].name],
         transform_args |-> [i \in 1..Len(transform_sel) |-> transform_sel[i].name],
         image_transform_params |-> itps,
         optional_params |-> itp.optional_params,
         has_positional_input |-> has_positional_input,
         has_any_positional_or_keyword |-> has_any_positional_or_keyword]

(***************************************************************************)
(* batch.py: the classification loop of create_batch_command               *)
(***************************************************************************)
\* One parameter of the loop: only a real union (typing.Union, X | Y) with a
\* single non-None member is unwrapped.
batch_classify_param(param) ==
    LET a == param.annotation
        is_union == a.origin = "Union"
        unwrap == is_union /\ Len(NonNoneTypes(a.args)) = 1
        annotation == IF unwrap THEN Plain(Head(NonNoneTypes(a.args))) ELSE a
        param_is_optional == unwrap \/ param.default # "empty"
        t == annotation.args[1]
        plain == annotation.origin = "none"
    IN  IF a = Plain("empty")
        THEN [found |-> FALSE, type |-> "empty", optional |-> FALSE]
        ELSE IF plain /\ (t = "Image" \/ t = "Transform")
        THEN [found |-> TRUE, type |-> t, optional |-> param_is_optional]
        ELSE IF plain /\ IsClass(t) /\ IsSitkClass(t)
        THEN [found |-> TRUE, type |-> t, optional |-> param_is_optional]
        ELSE [found |-> FALSE, type |-> "empty", optional |-> FALSE]

\* lines 88-127: (image_transform_params, optional_params); the dict is kept as
\* the sequence of its items, in insertion order.
batch_find_params(params) ==
    LET found == SelectSeq(params, LAMBDA p : batch_classify_param(p).found)
    IN  [image_transform_params |->
            [i \in 1..Len(found) |->
                [name |-> found[i].name, type |-> batch_classify_param(found[i]).type]],
         optional_params |->
            { found[i].name : i \in { k \in 1..Len(found) :
                                        batch_classify_param(found[k]).optional } }]

\* The keys of image_transform_params.
batch_param_names(itp) == { itp[i].name : i \in 1..Len(itp) }

\* Mutant: the explicit output_stem is ignored, the first parameter always drives.
batch_output_stem_first(itp, output_stem) ==
    IF Len(itp) > 0 THEN itp[1].name ELSE output_stem

\* lines 129-134: output_stem after the default was filled in ("None" is None)
batch_output_stem(itp, output_stem) ==
    IF output_stem = "None" /\ Len(itp) > 0 THEN itp[1].name ELSE output_stem

\* Mutant: only the output_stem check is made.
batch_check_stem_only(itp, stem) ==
    IF stem \notin batch_param_names(itp)
    THEN "ValueError: output_stem not found"
    ELSE "none"

\* lines 136-142: the ValueError the two checks raise ("none": they pass)
batch_check(itp, stem) ==
    IF Len(itp) = 0 THEN "ValueError: no Image or Transform parameter"
    ELSE IF stem \notin batch_param_names(itp)
    THEN "ValueError: output_stem not found"
    ELSE "none"

\* _get_default_glob
_get_default_glob(param_type) ==
    IF IsTransformClass(param_type) THEN "*.tfm" ELSE "*.nii.gz"

OUTPUT_DIR_PARAM_NAME == "output_dir"

\* lines 150-177: the parameter of the new signature for one parameter
batch_translate(param, found) ==
    IF param.name \in batch_param_names(found.image_transform_params)
    THEN Parameter(param.name, "POSITIONAL_OR_KEYWORD", PathType,
                   IF param.name \in found.optional_params
                   THEN "Argument(None)" ELSE "Argument(...)")
    ELSE param

\* lines 179-187: the output parameters appended to the positional parameters
batch_output_params(f) ==
    <<Parameter(OUTPUT_DIR_PARAM_NAME, "POSITIONAL_OR_KEYWORD", PathType, "Argument(...)")>>

\* lines 144-190: new_params
batch_new_params(f, found) ==
    LET translated == [i \in 1..Len(f.params) |-> batch_translate(f.params[i], found)]
        is_positional(i) ==
            \/ f.params[i].name \in batch_param_names(found.image_transform_params)
            \/ f.params[i].kind # "KEYWORD_ONLY"
        pos == SelectSeq([i \in 1..Len(f.params) |-> i], is_positional)
        kwo == SelectSeq([i \in 1..Len(f.params) |-> i], LAMBDA i : ~is_positional(i))
        positional_params == [k \in 1..Len(pos) |-> translated[pos[k]]]
        keyword_only_params == [k \in 1..Len(kwo) |-> translated[kwo[k]]]
    IN  positional_params \o batch_output_params(f) \o keyword_only_params

\* create_batch_command(func, output_template, output_stem): what the call
\* raises ("none" when it returns the batch command) and the values the batch
\* command closes over.
create_batch_command(f, output_template, output_stem) ==
    LET found == batch_find_params(f.params)
        itp == found.image_transform_params
        stem == batch_output_stem(itp, output_stem)
        new_params == batch_new_params(f, found)
        checked == batch_check(itp, stem)
        error == IF checked # "none" THEN checked
                 ELSE IF ~ValidSignature(new_params) THEN "ValueError: signature"
                 ELSE "none"
    IN  [built |-> TRUE,
         error |-> error,
         image_transform_params |-> itp,
         optional_params |-> found.optional_params,
         output_stem_arg |-> output_stem,
         output_stem |-> stem,
         output_template |-> output_template,
         params |-> IF error = "none" THEN new_params ELSE <<>>,
         return_annotation |-> NoReturn]

(***************************************************************************)
(* State                                                                   *)
(***************************************************************************)
NotBuilt == [built |-> FALSE]
NoCall == [op |-> "none"]
LoggerDefaultLevel == "WARNING"

Init ==
    /\ func \in Funcs
    /\ opts = DefaultOptions
    /\ phase = "declared"
    /\ cli = NotBuilt
    /\ sig = NotBuilt
    /\ bat = NotBuilt
    /\ files = {}
    /\ dirs = {}
    /\ level = LoggerDefaultLevel
    /\ last = NoCall

\* sitk_cli.make_cli(func, verbose=..., overwrite=...)
MakeCli ==
    /\ phase = "declared"
    /\ phase' = "make_cli"
    /\ cli' = make_cli(func, opts)
    /\ UNCHANGED <<func, opts, sig, bat, files, dirs, level, last>>

\* parameters.build_cli_signature(func, output_arg_name, verbose, overwrite)
BuildCliSignature ==
    /\ phase = "declared"
    /\ phase' = "build_cli_signature"
    /\ sig' = build_cli_signature(func, opts)
    /\ UNCHANGED <<func, opts, cli, bat, files, dirs, level, last>>

\* batch.create_batch_command(func, output_stem=...)
CreateBatchCommand ==
    /\ phase = "declared"
    /\ phase' = "create_batch_command"
    /\ \E output_stem \in OutputStems :
            bat' = create_batch_command(func, DefaultTemplate, output_stem)
    /\ UNCHANGED <<func, opts, cli, sig, files, dirs, level, last>>

Next == MakeCli \/ BuildCliSignature \/ CreateBatchCommand

Spec == Init /\ [][Next]_vars

\* The settings build_cli_signature takes: verbose and overwrite (create_dirs
\* is no argument of it).
SigOptions == { o \in Options : o.create_dirs }

\* build_cli_signature called for any function under any of its settings.
InitSig ==
    /\ func \in Funcs
    /\ opts \in SigOptions
    /\ phase = "declared"
    /\ cli = NotBuilt
    /\ sig = NotBuilt
    /\ bat = NotBuilt
    /\ files = {}
    /\ dirs = {}
    /\ level = LoggerDefaultLevel
    /\ last = NoCall

NextSig == BuildCliSignature

SpecSig == InitSig /\ [][NextSig]_vars

(***************************************************************************)
(* The wrapper make_cli returns (lib.py, func_wrapper), called with the    *)
(* values the command line layer supplies: a path for every Image/Transform*)
(* parameter, a path or None for the output, a count for --verbose, and a  *)
(* bool (or typer's own OptionInfo default) for --force.                   *)
(***************************************************************************)
\* Functions of the test-suite: get_shape, process_image, process_transform
\* and create_image.
get_shape ==
    [params |-> <<[name |-> "input", annotation |-> Plain("Image"),
                   default |-> "empty", kind |-> "POSITIONAL_OR_KEYWORD"]>>,
     ret |-> Plain("tuple")]

process_image ==
    [params |-> <<[name |-> "input", annotation |-> Plain("Image"),
                   default |-> "empty", kind |-> "POSITIONAL_OR_KEYWORD"],
                  [name |-> "threshold", annotation |-> Plain("float"),
                   default |-> "value", kind |-> "POSITIONAL_OR_KEYWORD"]>>,
     ret |-> Plain("Image")]

process_transform ==
    [params |-> <<[name |-> "tx", annotation |-> Plain("Transform"),
                   default |-> "empty", kind |-> "POSITIONAL_OR_KEYWORD"]>>,
     ret |-> Plain("Transform")]

create_image == [params |-> <<>>, ret |-> Plain("Image")]

CallFuncs == {get_shape, process_image, process_transform, create_image}

\* The file system the calls run against.
InputPaths == {"in.nii.gz", "missing.nii.gz"}
OutputPaths == {"out.nii.gz", "new/out.nii.gz"}
ExistingInputs == {"in.nii.gz"}
Root == "."
Parent(path) == IF path = "new/out.nii.gz" THEN "new" ELSE Root

\* Path.exists()
Exists(path, fs_files, fs_dirs) == path \in fs_files \/ path \in fs_dirs \/ path = Root

\* What the user may type at the prompt.
Responses == {"y", "yes", "Y", "n", ""}
Lower(response) == IF response = "Y" THEN "y" ELSE response

\* What the wrapped function may return: an object of its declared return type
\* or, for an Image/Transform function, nothing.
Results(f) ==
    IF ReturnsSitk(f.ret)
    THEN {IF IsImageClass(parse_annotation(f.ret).args[1]) THEN "Image" ELSE "Transform",
          "None"}
    ELSE IF f.ret = NoReturn THEN {"None"}
    ELSE {"value"}

\* Mutant: "if output_file:", the result is not looked at.
Truthy_always(result) == TRUE

\* bool(ret)
Truthy(result) == result # "None"

\* Mutant: DEBUG only for a count of exactly 2.
set_level_exactly_two(lvl, verbose_level) ==
    IF verbose_level = 1 THEN "INFO"
    ELSE IF verbose_level = 2 THEN "DEBUG"
    ELSE lvl

\* lines 196-202: the level of the package logger after the verbosity block
set_level(lvl, verbose_level) ==
    IF verbose_level = 1 THEN "INFO"
    ELSE IF verbose_level >= 2 THEN "DEBUG"
    ELSE lvl

\* line 196: whether the wrapper pops "_verbose" from kwargs
pops_verbose(verbose, keys) == verbose /\ VERBOSE_PARAM_NAME \in keys

\* line 213: force = bool(v.default if is_typer_default(v) else v)
force_value(v) == v = "True"

\* Mutant: "_force" is not skipped and reaches the wrapped function.
kwargs_inner_keys_keeps_force(keys) == keys \ {DEFAULT_OUTPUT_ARG_NAME}

\* lines 207-225: the keys of kwargs_inner, the keyword arguments handed on
kwargs_inner_keys(keys) == keys \ {DEFAULT_OUTPUT_ARG_NAME, FORCE_PARAM_NAME}

\* Mutant: only Image arguments are checked for existence.
missing_inputs_images_only(c, inputs, fs_files, fs_dirs) ==
    { k \in DOMAIN inputs :
        /\ k \in Range(c.image_args)
        /\ ~Exists(inputs[k], fs_files, fs_dirs) }

\* lines 215-224: the Image/Transform arguments whose path does not exist
missing_inputs(c, inputs, fs_files, fs_dirs) ==
    { k \in DOMAIN inputs :
        /\ k \in Range(c.image_args) \cup Range(c.transform_args)
        /\ ~Exists(inputs[k], fs_files, fs_dirs) }

\* Mutant: the force flag is not consulted.
overwrite_check_ignores_force(overwrite, force, exists) ==
    IF overwrite # "True" /\ exists
    THEN (IF overwrite = "prompt" THEN "prompt" ELSE "FileExistsError")
    ELSE "write"

\* Mutant: no protection, every write goes ahead.
overwrite_check_no_protection(overwrite, force, exists) == "write"

\* lines 230-244: the overwrite check: "write", "prompt" or "FileExistsError"
overwrite_check(overwrite, force, exists) ==
    IF overwrite # "True" /\ ~force /\ exists
    THEN (IF overwrite = "prompt" THEN "prompt" ELSE "FileExistsError")
    ELSE "write"

\* Mutant: the answer is compared without lower().
affirmative_case_sensitive(response) == response \in {"y", "yes"}

\* line 236: response.lower() in ("y", "yes")
affirmative(response) == Lower(response) \in {"y", "yes"}

\* lines 246-247: the directories after the optional mkdir of the parent
make_parent(create_dirs, output, fs_dirs) ==
    IF create_dirs /\ Parent(output) # Root THEN fs_dirs \cup {Parent(output)} ELSE fs_dirs

\* lines 248-250: the codec the result is written with
writer_for(result) == IF result = "Image" THEN "WriteImage" ELSE "WriteTransform"

\* func_wrapper as a whole: the outcome of one call.
func_wrapper(c, o, keys, inputs, output, force_arg, verbose_level, result, response, fs_files, fs_dirs, lvl) ==
    LET popped == pops_verbose(o.verbose, keys)
        level1 == IF popped THEN set_level(lvl, verbose_level) ELSE lvl
        keys1 == IF popped THEN keys \ {VERBOSE_PARAM_NAME} ELSE keys
        missing == missing_inputs(c, inputs, fs_files, fs_dirs)
        force == FORCE_PARAM_NAME \in keys1 /\ force_value(force_arg)
        output_file == IF DEFAULT_OUTPUT_ARG_NAME \in keys1 THEN output ELSE "None"
        check == overwrite_check(o.overwrite, force, Exists(output_file, fs_files, fs_dirs))
        dirs1 == make_parent(o.create_dirs, output_file, fs_dirs)
        base == [raised |-> "none", func_called |-> FALSE, passed |-> {}, loaded |-> {},
                 prompted |-> FALSE, response |-> "", writer |-> "none",
                 returned |-> "raised", files |-> fs_files, dirs |-> fs_dirs,
                 level |-> level1]
        called == [base EXCEPT !.func_called = TRUE,
                               !.passed = kwargs_inner_keys(keys1),
                               !.loaded = DOMAIN inputs \cap
                                   (Range(c.image_args) \cup Range(c.transform_args))]
        written ==
            IF Exists(Parent(output_file), fs_files, dirs1)
            THEN [called EXCEPT !.writer = writer_for(result), !.returned = "None",
                                !.files = fs_files \cup {output_file}, !.dirs = dirs1]
            ELSE [called EXCEPT !.writer = writer_for(result), !.raised = "RuntimeError",
                                !.dirs = dirs1]
    IN  IF missing # {}
        THEN [base EXCEPT !.raised = "FileNotFoundError"]
        ELSE IF ~(output_file # "None" /\ Truthy(result))
        THEN [called EXCEPT !.returned = result]
        ELSE IF check = "FileExistsError"
        THEN [called EXCEPT !.raised = "FileExistsError"]
        ELSE IF check = "prompt"
        THEN (IF affirmative(response)
              THEN [written EXCEPT !.prompted = TRUE, !.response = response]
              ELSE [called EXCEPT !.prompted = TRUE, !.response = response,
                                  !.returned = "None"])
        ELSE written

ParamKeys(c) == { c.params[i].name : i \in 1..Len(c.params) }

InitCall ==
    /\ func \in CallFuncs
    /\ opts \in Options
    /\ phase = "wrapped"
    /\ cli = make_cli(func, opts)
    /\ sig = build_cli_signature(func, opts)
    /\ bat = NotBuilt
    /\ files = ExistingInputs
    /\ dirs = {}
    /\ level = LoggerDefaultLevel
    /\ last = NoCall

\* The values a call may bind to the parameters of the wrapper's signature.
OutputArgs(keys) ==
    IF DEFAULT_OUTPUT_ARG_NAME \in keys THEN OutputPaths \cup {"None"} ELSE {"None"}
ForceArgs(keys) ==
    IF FORCE_PARAM_NAME \in keys THEN {"True", "False", "OptionInfo"} ELSE {"OptionInfo"}
VerboseArgs(keys) == IF VERBOSE_PARAM_NAME \in keys THEN 0..MaxVerbose ELSE {0}

\* One call of the wrapper.  The answer typed at the prompt is drawn only when
\* the wrapper asks.
FuncWrapper ==
    /\ phase = "wrapped"
    /\ \E inputs \in [ParamKeys(cli) \cap
                        (Range(cli.image_args) \cup Range(cli.transform_args))
                        -> InputPaths],
          output \in OutputArgs(ParamKeys(cli)),
          force_arg \in ForceArgs(ParamKeys(cli)),
          verbose_level \in VerboseArgs(ParamKeys(cli)),
          result \in Results(func) :
        \E asked \in {func_wrapper(cli, opts, ParamKeys(cli), inputs, output, force_arg,
                                   verbose_level, result, "", files, dirs, level).prompted} :
        \E response \in IF asked THEN Responses ELSE {""} :
        \E r \in {func_wrapper(cli, opts, ParamKeys(cli), inputs, output, force_arg,
                               verbose_level, result, response, files, dirs, level)} :
            /\ files' = r.files
            /\ dirs' = r.dirs
            /\ level' = r.level
            /\ last' = [op |-> "call",
                        inputs |-> inputs,
                        output |-> output,
                        force |-> FORCE_PARAM_NAME \in ParamKeys(cli)
                                    /\ force_value(force_arg),
                        verbose_level |-> verbose_level,
                        result |-> result,
                        output_existed |-> Exists(output, files, dirs),
                        files_before |-> files,
                        dirs_before |-> dirs,
                        level_before |-> level,
                        raised |-> r.raised,
                        func_called |-> r.func_called,
                        passed |-> r.passed,
                        loaded |-> r.loaded,
                        prompted |-> r.prompted,
                        response |-> r.response,
                        writer |-> r.writer,
                        returned |-> r.returned]
    /\ phase' = "returned"
    /\ UNCHANGED <<func, opts, cli, sig, bat>>

\* The caller takes the outcome of the call; the wrapper can be called again.
Return ==
    /\ phase = "returned"
    /\ phase' = "wrapped"
    /\ last' = NoCall
    /\ UNCHANGED <<func, opts, cli, sig, bat, files, dirs, level>>

NextCall == FuncWrapper \/ Return

SpecCall == InitCall /\ [][NextCall]_vars

(***************************************************************************)
(* batch.py: _get_stem_and_suffix.  A file name is the sequence of its      *)
(* characters.                                                             *)
(***************************************************************************)
Chars == {"a", "b", "."}

\* str.endswith, str.removesuffix, str.lstrip(".")
EndsWith(s, t) == Len(t) <= Len(s) /\ SubSeq(s, Len(s) - Len(t) + 1, Len(s)) = t
RemoveSuffix(s, t) ==
    IF Len(t) > 0 /\ EndsWith(s, t) THEN SubSeq(s, 1, Len(s) - Len(t)) ELSE s
LeadingDots(s) ==
    IF \A i \in 1..Len(s) : s[i] = "." THEN Len(s)
    ELSE (CHOOSE i \in 1..Len(s) : s[i] # "." /\ \A j \in 1..(i - 1) : s[j] = ".") - 1
LStripDots(s) == SubSeq(s, LeadingDots(s) + 1, Len(s))

\* "".join(path.suffixes): pathlib gives no suffix to a name that ends with a
\* dot; otherwise the suffixes are the dot-separated parts, after the first, of
\* the name without its leading dots.
JoinedSuffixes(name) ==
    LET stripped == LStripDots(name)
        dots == { i \in 1..Len(stripped) : stripped[i] = "." }
    IN  IF EndsWith(name, <<".">>) \/ dots = {}
        THEN <<>>
        ELSE SubSeq(stripped, CHOOSE i \in dots : \A j \in dots : i <= j, Len(stripped))

\* path.suffix: the last suffix only
LastSuffix(name) ==
    LET stripped == LStripDots(name)
        dots == { i \in 1..Len(stripped) : stripped[i] = "." }
    IN  IF EndsWith(name, <<".">>) \/ dots = {}
        THEN <<>>
        ELSE SubSeq(stripped, CHOOSE i \in dots : \A j \in dots : i >= j, Len(stripped))

\* Mutant: path.suffix instead of all of path.suffixes.
_get_stem_and_suffix_last(name) ==
    [stem |-> RemoveSuffix(name, LastSuffix(name)), suffix |-> LastSuffix(name)]

\* _get_stem_and_suffix(path), of path.name
_get_stem_and_suffix(name) ==
    [stem |-> RemoveSuffix(name, JoinedSuffixes(name)), suffix |-> JoinedSuffixes(name)]

\* Names of the test-suite and of the docstring.
NII_GZ == <<".", "n", "i", "i", ".", "g", "z">>
Brain001 == <<"b", "r", "a", "i", "n", "_", "0", "0", "1">>
ExampleNames ==
    { Brain001 \o NII_GZ,
      <<"i", "m", "a", "g", "e", ".", "n", "i", "i">>,
      <<"d", "a", "t", "a", ".", "t", "a", "r", ".", "g", "z">> }

\* The names a file can have: not empty, and neither "." nor "..".
FileNames ==
    { n \in UNION { [1..k -> Chars] : k \in 1..MaxNameLen } :
        n \notin {<<".">>, <<".", ".">>} } \cup ExampleNames

InitStem ==
    /\ func \in {get_shape}
    /\ opts = DefaultOptions
    /\ phase = "path"
    /\ cli = NotBuilt
    /\ sig = NotBuilt
    /\ bat = NotBuilt
    /\ files = {}
    /\ dirs = {}
    /\ level = LoggerDefaultLevel
    /\ \E name \in FileNames : last = [op |-> "path", name |-> name]

\* stem, suffix = _get_stem_and_suffix(path)
GetStemAndSuffix ==
    /\ phase = "path"
    /\ phase' = "stem"
    /\ last' = [op |-> "_get_stem_and_suffix",
                name |-> last.name,
                stem |-> _get_stem_and_suffix(last.name).stem,
                suffix |-> _get_stem_and_suffix(last.name).suffix]
    /\ UNCHANGED <<func, opts, cli, sig, bat, files, dirs, level>>

NextStem == GetStemAndSuffix

SpecStem == InitStem /\ [][NextStem]_vars

(***************************************************************************)
(* batch.py: the batch command create_batch_command returns (batch_wrapper).*)
(* A path is the directory it lies in and its name; a directory is a path   *)
(* without name.                                                           *)
(***************************************************************************)
\* Functions of the test-suite.
median_filter ==
    [params |-> <<[name |-> "input", annotation |-> Plain("Image"),
                   default |-> "empty", kind |-> "POSITIONAL_OR_KEYWORD"],
                  [name |-> "radius", annotation |-> Plain("int"),
                   default |-> "value", kind |-> "POSITIONAL_OR_KEYWORD"]>>,
     ret |-> Plain("Image")]

apply_transform ==
    [params |-> <<[name |-> "image", annotation |-> Plain("Image"),
                   default |-> "empty", kind |-> "POSITIONAL_OR_KEYWORD"],
                  [name |-> "transform", annotation |-> Plain("Transform"),
                   default |-> "empty", kind |-> "POSITIONAL_OR_KEYWORD"]>>,
     ret |-> Plain("Image")]

add_images ==
    [params |-> <<[name |-> "fixed", annotation |-> Plain("Image"),
                   default |-> "empty", kind |-> "POSITIONAL_OR_KEYWORD"],
                  [name |-> "moving", annotation |-> Plain("Image"),
                   default |-> "empty", kind |-> "POSITIONAL_OR_KEYWORD"]>>,
     ret |-> Plain("Image")]

register_with_optional_mask ==
    [params |-> <<[name |-> "fixed", annotation |-> Plain("Image"),
                   default |-> "empty", kind |-> "POSITIONAL_OR_KEYWORD"],
                  [name |-> "moving", annotation |-> Plain("Image"),
                   default |-> "empty", kind |-> "POSITIONAL_OR_KEYWORD"],
                  [name |-> "fixed_mask", annotation |-> UnionOf(<<"Image", "NoneType">>),
                   default |-> "None", kind |-> "POSITIONAL_OR_KEYWORD"]>>,
     ret |-> Plain("Transform")]

\* A function whose only Image parameter is optional.
fill_with_optional_mask ==
    [params |-> <<[name |-> "mask", annotation |-> UnionOf(<<"Image", "NoneType">>),
                   default |-> "None", kind |-> "POSITIONAL_OR_KEYWORD"]>>,
     ret |-> Plain("Image")]

\* A function whose optional Image parameter is declared before the required one:
\* def masked_filter(mask: sitk.Image | None = None, *, image: sitk.Image) -> sitk.Image
masked_filter ==
    [params |-> <<[name |-> "mask", annotation |-> UnionOf(<<"Image", "NoneType">>),
                   default |-> "None", kind |-> "POSITIONAL_OR_KEYWORD"],
                  [name |-> "image", annotation |-> Plain("Image"),
                   default |-> "empty", kind |-> "KEYWORD_ONLY"]>>,
     ret |-> Plain("Image")]

analyze_image ==
    [params |-> <<[name |-> "input", annotation |-> Plain("Image"),
                   default |-> "empty", kind |-> "POSITIONAL_OR_KEYWORD"]>>,
     ret |-> Plain("None")]

BatchFuncs ==
    {median_filter, apply_transform, add_images, register_with_optional_mask,
     fill_with_optional_mask, masked_filter, analyze_image}

\* The templates of the test-suite: the default, "inverted_{stem}{suffix}",
\* "{stem}.tfm", and one that uses {name}.
TFM == <<".", "t", "f", "m">>
Templates ==
    { DefaultTemplate,
      <<"i", "n", "v", "e", "r", "t", "e", "d", "_", "{stem}", "{suffix}">>,
      <<"{stem}">> \o TFM,
      <<"x", "_", "{name}">> }

\* Paths.
Dir(d) == [dir |-> d, name |-> <<>>]
File(d, n) == [dir |-> d, name |-> n]

\* The file names the two input directories of the calls may hold: dir1 the
\* images a, b, c and a.b, dir2 the images a and c and the transforms a and b.
DirNames(d) ==
    IF d = "dir1"
    THEN { <<"a">> \o NII_GZ, <<"b">> \o NII_GZ, <<"c">> \o NII_GZ,
           <<"a", ".", "b">> \o NII_GZ }
    ELSE { <<"a">> \o NII_GZ, <<"c">> \o NII_GZ, <<"a">> \o TFM, <<"b">> \o TFM }

\* What a directory may hold: up to MaxFiles of these files; dir1 may also be
\* the test fixture with the one image brain_001.nii.gz.
DirContents(d) ==
    { c \in SUBSET DirNames(d) : Cardinality(c) <= MaxFiles }
        \cup (IF d = "dir1" THEN {{Brain001 \o NII_GZ}} ELSE {})

\* The templates a batch command of a function is built with.
TemplatesOf(f) ==
    IF Len(f.params) > 0 /\ f.params[1].name = "input" /\ f.ret # NoReturn
    THEN Templates
    ELSE IF f.ret = NoReturn THEN {DefaultTemplate}
    ELSE IF f.ret = Plain("Transform") THEN {<<"{stem}">> \o TFM}
    ELSE {DefaultTemplate, <<"{stem}">> \o TFM}

InputDirs == {"dir1", "dir2"}
OutputDir == Dir("output")
ReferenceFile == File(".", <<"r", "e", "f">> \o NII_GZ)
MissingPath == File(".", <<"n", "o">> \o NII_GZ)

\* The arguments a call may bind to an Image/Transform parameter.
PathArgs == { Dir(d) : d \in InputDirs } \cup {ReferenceFile, MissingPath}

\* Path.is_file(), Path.is_dir()
is_file(path, fs_files) == path \in fs_files
is_dir(path, fs_dirs) == path.name = <<>> /\ path.dir \in fs_dirs

\* The order of str: characters by code point, names character by character.
CodePoints ==
    <<".", "0", "1", "_", "a", "b", "c", "d", "e", "f", "g", "i", "l", "m", "n",
      "o", "r", "s", "t", "v", "x", "z">>
Ord(c) == CHOOSE i \in 1..Len(CodePoints) : CodePoints[i] = c
NameLess(n1, n2) ==
    \/ \E i \in 1..Len(n1) :
            /\ i <= Len(n2)
            /\ SubSeq(n1, 1, i - 1) = SubSeq(n2, 1, i - 1)
            /\ Ord(n1[i]) < Ord(n2[i])
    \/ Len(n1) < Len(n2) /\ SubSeq(n2, 1, Len(n1)) = n1

\* sorted(...) of a set of names
RECURSIVE Sorted(_)
Sorted(names) ==
    IF names = {} THEN <<>>
    ELSE LET first == CHOOSE n \in names : \A m \in names \ {n} : NameLess(n, m)
         IN  <<first>> \o Sorted(names \ {first})

\* The suffix a glob pattern of _get_default_glob asks for.
GlobSuffix(pattern) == IF pattern = "*.tfm" THEN TFM ELSE NII_GZ

\* line 237: sorted(path.glob(glob_pattern)), as the names found in the directory
sorted_glob(path, pattern, fs_files) ==
    Sorted({ f.name : f \in { g \in fs_files :
                g.dir = path.dir /\ EndsWith(g.name, GlobSuffix(pattern)) } })

\* Mutant: an empty glob is not noticed.
collect_no_empty_check(param, arg_map, fs_files, fs_dirs) ==
    IF param.name \notin DOMAIN arg_map THEN "unbound"
    ELSE IF is_file(arg_map[param.name], fs_files) THEN "file"
    ELSE IF is_dir(arg_map[param.name], fs_dirs) THEN "dir"
    ELSE "FileNotFoundError"

\* lines 222-244: what the collection loop finds for one parameter
collect(param, arg_map, fs_files, fs_dirs) ==
    IF param.name \notin DOMAIN arg_map THEN "unbound"
    ELSE IF is_file(arg_map[param.name], fs_files) THEN "file"
    ELSE IF is_dir(arg_map[param.name], fs_dirs)
    THEN (IF sorted_glob(arg_map[param.name], _get_default_glob(param.type), fs_files) = <<>>
          THEN "no files" ELSE "dir")
    ELSE "FileNotFoundError"

\* str.format(stem=, suffix=, name=) of a template
RECURSIVE Format(_, _, _, _)
Format(template, stem, suffix, name) ==
    IF template = <<>> THEN <<>>
    ELSE (CASE Head(template) = "{stem}" -> stem
            [] Head(template) = "{suffix}" -> suffix
            [] Head(template) = "{name}" -> name
            [] OTHER -> <<Head(template)>>)
         \o Format(Tail(template), stem, suffix, name)

\* The elements of a list without repetitions, in the order of first occurrence.
FirstOccurrences(seq) ==
    LET keep == SelectSeq([i \in 1..Len(seq) |-> i],
                          LAMBDA i : \A j \in 1..(i - 1) : seq[j] # seq[i])
    IN  [k \in 1..Len(keep) |-> seq[keep[k]]]

RECURSIVE Flatten(_)
Flatten(seqs) == IF seqs = <<>> THEN <<>> ELSE Head(seqs) \o Flatten(Tail(seqs))

SINGLE == <<"s", "i", "n", "g", "l", "e">>

\* Mutant: a stem is a complete match when any directory has a file for it.
is_complete_any(stem, required_dir_params, dir_files) ==
    \E p \in DOMAIN dir_files :
        \E i \in 1..Len(dir_files[p]) : _get_stem_and_suffix(dir_files[p][i]).stem = stem

\* Mutant: optional parameters are required as well.
is_complete_all(stem, required_dir_params, dir_files) ==
    \A p \in DOMAIN dir_files :
        \E i \in 1..Len(dir_files[p]) : _get_stem_and_suffix(dir_files[p][i]).stem = stem

\* line 263: all(p in files for p in required_dir_params), for one stem
is_complete(stem, required_dir_params, dir_files) ==
    \A p \in required_dir_params :
        \E i \in 1..Len(dir_files[p]) : _get_stem_and_suffix(dir_files[p][i]).stem = stem

\* lines 246-276: complete_matches as the list of its items (stem, files), in the
\* insertion order of the dict; dir_files maps a parameter to its sorted names.
complete_matches(itp, optional_params, arg_map, dir_files, single_files) ==
    LET order == SelectSeq([i \in 1..Len(itp) |-> itp[i].name],
                           LAMBDA n : n \in DOMAIN dir_files)
        stems == FirstOccurrences(Flatten(
                    [k \in 1..Len(order) |->
                        [i \in 1..Len(dir_files[order[k]]) |->
                            _get_stem_and_suffix(dir_files[order[k]][i]).stem]]))
        has(pn, stem) ==
            { i \in 1..Len(dir_files[pn]) :
                _get_stem_and_suffix(dir_files[pn][i]).stem = stem }
        last_of(pn, stem) ==
            dir_files[pn][CHOOSE i \in has(pn, stem) : \A j \in has(pn, stem) : j <= i]
        files_of(stem) ==
            [pn \in { q \in DOMAIN dir_files : has(q, stem) # {} } |->
                File(arg_map[pn].dir, last_of(pn, stem))]
        required_dir_params == DOMAIN dir_files \ optional_params
        complete == SelectSeq(stems, LAMBDA st : is_complete(st, required_dir_params, dir_files))
    IN  IF DOMAIN dir_files # {}
        THEN [k \in 1..Len(complete) |-> [stem |-> complete[k], files |-> files_of(complete[k])]]
        ELSE IF DOMAIN single_files = {} THEN <<>>
        ELSE <<[stem |-> SINGLE, files |-> [pn \in {} |-> MissingPath]]>>

\* lines 305-308: the reader a file is loaded with
reader_for(param_type) ==
    IF IsImageClass(param_type) THEN "ReadImage"
    ELSE IF IsTransformClass(param_type) THEN "ReadTransform"
    ELSE "none"

\* lines 317-321: the writer a result is saved with
batch_writer_for(result) ==
    IF result = "Image" THEN "WriteImage"
    ELSE IF result = "Transform" THEN "WriteTransform"
    ELSE "none"

\* Mutant: the suffix is path.suffix, the last extension only.
output_name_last_suffix(template, stem, output_file_ref) ==
    Format(template, stem, LastSuffix(output_file_ref.name), output_file_ref.name)

\* Mutant: {stem} is the stem of the output_stem file, not the key of the group.
output_name_own_stem(template, stem, output_file_ref) ==
    Format(template, _get_stem_and_suffix(output_file_ref.name).stem,
           _get_stem_and_suffix(output_file_ref.name).suffix, output_file_ref.name)

\* Mutant: {stem} is the key of the implicit group for every group.
output_name_single_stem(template, stem, output_file_ref) ==
    Format(template, SINGLE, _get_stem_and_suffix(output_file_ref.name).suffix,
           output_file_ref.name)

\* lines 289-296: output_name
output_name(template, stem, output_file_ref) ==
    Format(template, stem, _get_stem_and_suffix(output_file_ref.name).suffix,
           output_file_ref.name)

\* lines 283-322 for one item of complete_matches: the files of the group, the
\* output path, the arguments of the function and the writer.
process_group(b, group, single_files, kwargs, result) ==
    LET all_files ==
            [pn \in DOMAIN single_files \cup DOMAIN group.files |->
                IF pn \in DOMAIN group.files THEN group.files[pn] ELSE single_files[pn]]
        types == [pn \in batch_param_names(b.image_transform_params) |->
                    (CHOOSE e \in Range(b.image_transform_params) : e.name = pn).type]
    IN  IF b.output_stem \notin DOMAIN all_files
        THEN [raised |-> "KeyError", stem |-> group.stem, files |-> all_files]
        ELSE [raised |-> "none",
              stem |-> group.stem,
              files |-> all_files,
              output_path |->
                File(OutputDir.dir,
                     output_name(b.output_template, group.stem, all_files[b.output_stem])),
              readers |-> [pn \in DOMAIN all_files |-> reader_for(types[pn])],
              func_args |-> DOMAIN all_files \cup kwargs,
              result |-> result,
              writer |-> batch_writer_for(result)]

\* What the loop body does for group idx of total, in the order of its
\* statements: the progress line, the reads, the call of the function, and the
\* write when the function returned a result.
group_events(idx, total, g) ==
    <<[ev |-> "progress", idx |-> idx, total |-> total, stem |-> g.stem],
      [ev |-> "load", idx |-> idx, total |-> total, stem |-> g.stem],
      [ev |-> "call", idx |-> idx, total |-> total, stem |-> g.stem]>>
    \o (IF g.writer # "none"
        THEN <<[ev |-> "write", idx |-> idx, total |-> total, stem |-> g.stem]>>
        ELSE <<>>)

\* The outcome of a call that returns before the loop.
batch_early(fs_files, fs_dirs) ==
    [raised |-> "none", soft |-> "none", made_dir |-> FALSE, total |-> 0,
     matches |-> <<>>, groups |-> <<>>, events |-> <<>>,
     completed |-> FALSE, files |-> fs_files, dirs |-> fs_dirs]

\* lines 278-324: the directory is made, the items of complete_matches are
\* handled in turn until one raises, and the summary is printed after the last;
\* groups holds what handling each item gives.
batch_loop(matches, groups, fs_files, fs_dirs) ==
    LET failed == { k \in 1..Len(groups) : groups[k].raised # "none" }
        done == IF failed = {} THEN Len(groups)
                ELSE (CHOOSE k \in failed : \A j \in failed : k <= j) - 1
        processed == SubSeq(groups, 1, done)
        written == { processed[k].output_path :
                        k \in { j \in 1..done : processed[j].writer # "none" } }
        total == Len(matches)
        events ==
            <<[ev |-> "mkdir", idx |-> 0, total |-> total, stem |-> <<>>]>>
            \o Flatten([k \in 1..done |-> group_events(k, total, processed[k])])
            \o (IF failed = {}
                THEN <<[ev |-> "completed", idx |-> total + 1, total |-> total, stem |-> <<>>]>>
                ELSE <<>>)
    IN  [raised |-> IF failed = {} THEN "none" ELSE "KeyError",
         soft |-> "none",
         made_dir |-> TRUE,
         total |-> total,
         matches |-> matches,
         groups |-> processed,
         events |-> events,
         completed |-> failed = {},
         files |-> fs_files \cup written,
         dirs |-> fs_dirs \cup {OutputDir.dir}]

\* lines 246-324: the matching of the collected files, its two soft returns,
\* and the loop over the matches.
batch_match(b, arg_map, single_files, dir_files, kwargs, result, fs_files, fs_dirs) ==
    CHOOSE r \in
        { IF DOMAIN dir_files # {} /\ matches = <<>>
          THEN [batch_early(fs_files, fs_dirs) EXCEPT
                    !.soft = "No matching files found across directory inputs"]
          ELSE IF DOMAIN dir_files = {} /\ DOMAIN single_files = {}
          THEN [batch_early(fs_files, fs_dirs) EXCEPT !.soft = "No input files provided"]
          ELSE CHOOSE q \in
                { batch_loop(matches, groups, fs_files, fs_dirs) :
                    groups \in {[k \in 1..Len(matches) |->
                                  process_group(b, matches[k], single_files, kwargs, result)]} } :
                TRUE
          : matches \in {complete_matches(b.image_transform_params, b.optional_params,
                                          arg_map, dir_files, single_files)} } : TRUE

\* batch_wrapper as a whole: the outcome of one call.  kwargs are the keyword
\* arguments that are no Image/Transform parameters; result is what the
\* function returns in this call.  found is what the collection loop of lines
\* 221-244 finds for each parameter.
batch_wrapper(b, arg_map, kwargs, result, fs_files, fs_dirs) ==
    LET itp == b.image_transform_params
        outcome(found) ==
            LET stops == { i \in 1..Len(itp) : found[i] \in {"no files", "FileNotFoundError"} }
                stop == CHOOSE i \in stops : \A j \in stops : i <= j
                single_files ==
                    [pn \in { itp[i].name : i \in { k \in 1..Len(itp) : found[k] = "file" } } |->
                        arg_map[pn]]
                dir_files ==
                    [pn \in { itp[i].name : i \in { k \in 1..Len(itp) : found[k] = "dir" } } |->
                        sorted_glob(arg_map[pn],
                                    _get_default_glob((CHOOSE e \in Range(itp) : e.name = pn).type),
                                    fs_files)]
            IN  IF stops # {}
                THEN (IF found[stop] = "no files"
                      THEN [batch_early(fs_files, fs_dirs) EXCEPT
                                !.soft = "No files found matching"]
                      ELSE [batch_early(fs_files, fs_dirs) EXCEPT
                                !.raised = "FileNotFoundError"])
                ELSE CHOOSE r \in
                        { batch_match(b, arg_map, sf, df, kwargs, result, fs_files, fs_dirs) :
                            sf \in {single_files}, df \in {dir_files} } : TRUE
    IN  CHOOSE r \in
            { outcome(found) :
                found \in {[i \in 1..Len(itp) |-> collect(itp[i], arg_map, fs_files, fs_dirs)]} } :
            TRUE

\* The names of the function's parameters that are no Image/Transform ones.
OtherParamNames(f, b) ==
    { f.params[i].name : i \in 1..Len(f.params) } \ batch_param_names(b.image_transform_params)

InitBatch ==
    /\ func \in BatchFuncs
    /\ opts = DefaultOptions
    /\ phase = "batch"
    /\ cli = NotBuilt
    /\ sig = NotBuilt
    /\ \E output_template \in TemplatesOf(func) :
       \E output_stem \in {"None"} \cup
                { func.params[i].name : i \in { k \in 1..Len(func.params) :
                      batch_classify_param(func.params[k]).found } } :
            bat = create_batch_command(func, output_template, output_stem)
    /\ \E c1 \in DirContents("dir1"), c2 \in DirContents("dir2") :
            files = {ReferenceFile} \cup { File("dir1", n) : n \in c1 }
                        \cup { File("dir2", n) : n \in c2 }
    /\ dirs = InputDirs
    /\ level = LoggerDefaultLevel
    /\ last = NoCall

\* One call of the batch command: every required Image/Transform parameter is
\* bound to a path, an optional one may be left unbound.
BatchWrapper ==
    /\ phase = "batch"
    /\ bat.error = "none"
    /\ \E unbound \in SUBSET bat.optional_params :
       \E arg_map \in [batch_param_names(bat.image_transform_params) \ unbound -> PathArgs] :
       \E result \in Results(func) :
       \E r \in {batch_wrapper(bat, arg_map, OtherParamNames(func, bat), result,
                                files, dirs)} :
            /\ files' = r.files
            /\ dirs' = r.dirs
            /\ last' = [op |-> "batch",
                        arg_map |-> arg_map,
                        kwargs |-> OtherParamNames(func, bat),
                        result |-> result,
                        files_before |-> files,
                        dirs_before |-> dirs,
                        raised |-> r.raised,
                        soft |-> r.soft,
                        made_dir |-> r.made_dir,
                        total |-> r.total,
                        matches |-> r.matches,
                        groups |-> r.groups,
                        events |-> r.events,
                        completed |-> r.completed]
    /\ phase' = "returned"
    /\ UNCHANGED <<func, opts, cli, sig, bat, level>>

NextBatch == BatchWrapper

SpecBatch == InitBatch /\ [][NextBatch]_vars

(***************************************************************************)
(* Properties                                                              *)
(***************************************************************************)
\* What the declaration of a parameter says, read off the annotation alone.
DeclUnionWithNone(a) ==
    /\ a.origin = "Union"
    /\ \E i \in 1..Len(a.args) : a.args[i] = "NoneType"
    /\ Len(NonNoneTypes(a.args)) = 1

DeclMultiUnion(a) == a.origin = "Union" /\ Len(NonNoneTypes(a.args)) > 1

DeclStripped(a) == IF DeclUnionWithNone(a) THEN Plain(Head(NonNoneTypes(a.args))) ELSE a

DeclArtifact(a) ==
    /\ DeclStripped(a).origin = "none"
    /\ DeclStripped(a).args[1] \in {"Image", "Transform", "AffineTransform"}

ArtifactNames(r) == Range(r.image_args) \cup Range(r.transform_args)
ClassifiedNames(r) == { e.name : e \in Range(r.image_transform_params) }
ParamNamed(ps, n) == ps[CHOOSE i \in 1..Len(ps) : ps[i].name = n]
HasParam(ps, n) == \E i \in 1..Len(ps) : ps[i].name = n
IsPositionalArg(p) == p.default = "Argument(...)"

SomeArtifactPositional(r) ==
    \E i \in 1..Len(r.params) :
        r.params[i].name \in ArtifactNames(r) /\ IsPositionalArg(r.params[i])

OutputRule(r) ==
    (r.built /\ r.has_output) =>
        LET out == ParamNamed(r.params, DEFAULT_OUTPUT_ARG_NAME)
        IN  /\ IsPositionalArg(out) <=>
                    (SomeArtifactPositional(r) \/ ArtifactNames(r) = {})
            /\ ~IsPositionalArg(out) => out.default = "None"

PositionalRule(r) ==
    r.built =>
        \A i \in 1..Len(func.params) :
            LET p == func.params[i]
            IN  p.name \in ArtifactNames(r) =>
                    (IsPositionalArg(ParamNamed(r.params, p.name)) <=>
                        (/\ p.default = "empty"
                         /\ ~DeclUnionWithNone(p.annotation)
                         /\ p.kind # "KEYWORD_ONLY"))

\* C2 (as claimed): every Image/Transform parameter is translated to a positional
\* argument iff it has no default, is no union with None and is not keyword-only.
C2_PositionalIffRequired == PositionalRule(cli) /\ PositionalRule(sig)

\* C2, restricted to what parameters.translate_image_transform_param does with
\* the parameters that are Image/Transform by declaration.
C2_ParametersModuleOnly ==
    sig.built =>
        \A i \in 1..Len(func.params) :
            LET p == func.params[i]
            IN  DeclArtifact(p.annotation) =>
                    (IsPositionalArg(ParamNamed(sig.params, p.name)) <=>
                        (/\ p.default = "empty"
                         /\ ~DeclUnionWithNone(p.annotation)
                         /\ p.kind # "KEYWORD_ONLY"))

ClassificationRule(r) ==
    r.built =>
        \A i \in 1..Len(func.params) :
            (func.params[i].name \in ClassifiedNames(r))
                <=> DeclArtifact(func.params[i].annotation)

\* C3 (as claimed): a parameter is classified as Image/Transform iff its declared
\* type, after stripping at most one union-with-None layer, is Image, Transform or
\* a subclass; unannotated, non-type and generic container parameters never are.
C3_ArtifactIffDeclared == ClassificationRule(sig) /\ ClassificationRule(bat)

\* C3 for the classification loop of batch.create_batch_command alone.
C3_BatchOnly == ClassificationRule(bat)

OptionalRule(r) ==
    r.built =>
        \A i \in 1..Len(func.params) :
            LET p == func.params[i]
            IN  p.name \in ClassifiedNames(r) =>
                    ((p.name \in r.optional_params) <=>
                        (p.default # "empty" \/ DeclUnionWithNone(p.annotation)))

\* C4 (as claimed): an artifact parameter is marked optional iff it has a default
\* value or its declared type is a union of the artifact type with None.
C4_OptionalIffDefaultOrUnion == OptionalRule(sig)

\* C4 for the classification loop of batch.create_batch_command alone.
C4_BatchOnly == OptionalRule(bat)

\* C5 (as claimed): a parameter declared as a union with more than one non-None
\* member keeps its annotation, is not marked optional because of the union and
\* is not treated as an Image/Transform artifact (not rewritten to a path).
C5_MultiUnionLeftAlone ==
    \A i \in 1..Len(func.params) :
        LET p == func.params[i]
        IN  DeclMultiUnion(p.annotation) =>
                /\ cli.built =>
                    /\ p.name \notin ArtifactNames(cli)
                    /\ ParamNamed(cli.params, p.name).annotation = p.annotation
                /\ sig.built =>
                    /\ p.name \notin ArtifactNames(sig)
                    /\ p.name \notin sig.optional_params
                    /\ ParamNamed(sig.params, p.name).annotation = p.annotation

\* C5 for the classification alone: introspection and batch do not record the
\* parameter, so nothing is loaded for it by their callers.
C5_ClassificationOnly ==
    \A i \in 1..Len(func.params) :
        LET p == func.params[i]
        IN  DeclMultiUnion(p.annotation) =>
                /\ sig.built => p.name \notin ClassifiedNames(sig)
                /\ bat.built => p.name \notin ClassifiedNames(bat)

\* A call that got as far as the output step with something to write.
WriteCall ==
    /\ last.op = "call"
    /\ last.func_called
    /\ last.output # "None"
    /\ Truthy(last.result)

MissingInputCall ==
    /\ last.op = "call"
    /\ \E k \in DOMAIN last.inputs :
          ~Exists(last.inputs[k], last.files_before, last.dirs_before)

\* C6: a call with an Image/Transform parameter bound to a path that does not
\* exist raises FileNotFoundError, the wrapped function is not invoked, nothing is
\* written and no directory is created.
C6_MissingInputRaisesFirst ==
    MissingInputCall =>
        /\ last.raised = "FileNotFoundError"
        /\ ~last.func_called
        /\ last.writer = "none"
        /\ files = last.files_before
        /\ dirs = last.dirs_before

\* C6 witness: a call with a missing input and an output path whose parent the
\* wrapper would have created has raised FileNotFoundError.
C6_Witness ==
    /\ MissingInputCall
    /\ opts.create_dirs
    /\ last.output = "new/out.nii.gz"
    /\ last.raised = "FileNotFoundError"

DenyCall == WriteCall /\ opts.overwrite = "False"

Refused == last.writer = "none" /\ files = last.files_before /\ dirs = last.dirs_before
Written == last.raised = "none" /\ last.writer # "none" /\ last.output \in files

\* C7 (as claimed): under overwrite=False, for every output path, a write to a
\* path that does not exist succeeds, a write to an existing path without force
\* raises FileExistsError, and a write to an existing path with force succeeds.
C7_DenyAsClaimed ==
    DenyCall =>
        /\ ~last.output_existed => Written
        /\ (last.output_existed /\ ~last.force) =>
                (last.raised = "FileExistsError" /\ Refused)
        /\ (last.output_existed /\ last.force) => Written

\* C7 (amended): as claimed, the first write succeeding provided the parent
\* directory of the path exists or create_dirs is enabled.
C7_DenyPolicy ==
    DenyCall =>
        /\ (/\ ~last.output_existed
            /\ (opts.create_dirs
                    \/ Exists(Parent(last.output), last.files_before, last.dirs_before)))
                => Written
        /\ (last.output_existed /\ ~last.force) =>
                (last.raised = "FileExistsError" /\ Refused)
        /\ (last.output_existed /\ last.force) => Written

\* C7 witness: a write to an existing path without force was refused.
C7_Witness ==
    /\ DenyCall
    /\ last.output_existed
    /\ ~last.force
    /\ last.raised = "FileExistsError"

\* C8: the wrapped signature has the "_force" parameter iff overwrite is not True,
\* and the wrapper never passes "_force" on to the wrapped function.
C8_ForceFlagIffProtected ==
    /\ cli.built => (HasParam(cli.params, FORCE_PARAM_NAME) <=> opts.overwrite # "True")
    /\ sig.built => (HasParam(sig.params, FORCE_PARAM_NAME) <=> opts.overwrite # "True")
    /\ (last.op = "call" /\ last.func_called) => FORCE_PARAM_NAME \notin last.passed

\* C8 witness: the wrapped function ran in a call that set the force flag.
C8_Witness ==
    /\ last.op = "call"
    /\ last.func_called
    /\ HasParam(cli.params, FORCE_PARAM_NAME)
    /\ last.force

PromptCall == WriteCall /\ opts.overwrite = "prompt"

\* The affirmative answers: y or yes, in any case.
AffirmativeAnswer(response) == response \in {"y", "yes", "Y"}

\* C9: under overwrite="prompt", an existing output without force makes the
\* wrapper ask; a non-affirmative answer returns without writing or raising, an
\* affirmative one writes; with force nothing is asked and the write proceeds;
\* for a path that does not exist nothing is asked.
C9_PromptPolicy ==
    PromptCall =>
        /\ (last.output_existed /\ ~last.force) =>
            /\ last.prompted
            /\ AffirmativeAnswer(last.response) => Written
            /\ ~AffirmativeAnswer(last.response) =>
                    (last.raised = "none" /\ last.returned = "None" /\ Refused)
        /\ last.force => ~last.prompted
        /\ (last.force /\ last.output_existed) => Written
        /\ ~last.output_existed => ~last.prompted

\* C9 witness: the user declined and the call returned without writing.
C9_Witness ==
    /\ PromptCall
    /\ last.prompted
    /\ last.response = "n"
    /\ last.returned = "None"
    /\ last.writer = "none"

\* C10: the wrapped signature has the "_verbose" parameter iff verbose was
\* requested; "_verbose" is never passed on to the wrapped function; a count of 0
\* leaves the logger level unchanged, 1 sets INFO, 2 or more sets DEBUG, in every
\* call, before (and whether or not) the wrapped function is invoked.
C10_VerboseFlag ==
    /\ cli.built => (HasParam(cli.params, VERBOSE_PARAM_NAME) <=> opts.verbose)
    /\ sig.built => (HasParam(sig.params, VERBOSE_PARAM_NAME) <=> opts.verbose)
    /\ last.op = "call" =>
        /\ last.func_called => VERBOSE_PARAM_NAME \notin last.passed
        /\ last.verbose_level = 0 => level = last.level_before
        /\ last.verbose_level = 1 => level = "INFO"
        /\ last.verbose_level >= 2 => level = "DEBUG"

\* C10 witness: a count above 2 set DEBUG, and a later call with a count of 1 set
\* the level back to INFO.
C10_Witness ==
    /\ last.op = "call"
    /\ last.func_called
    /\ last.level_before = "DEBUG"
    /\ last.verbose_level = 1
    /\ level = "INFO"

\* C11: the wrapper writes a file only when an output parameter was declared, it
\* is bound to a path and the function returned something; when no output
\* parameter was declared (no Image/Transform return type) or the output is bound
\* to nothing, the wrapper writes no file, creates no directory and returns the
\* function's result unchanged.
C11_WritesOnlyBoundResult ==
    /\ cli.built => (cli.has_output <=> ReturnsSitk(func.ret))
    /\ last.op = "call" =>
        /\ (last.writer # "none" \/ files # last.files_before \/ dirs # last.dirs_before) =>
                /\ cli.has_output
                /\ last.output \in OutputPaths
                /\ last.result # "None"
        /\ (last.func_called /\ (~cli.has_output \/ last.output = "None")) =>
                /\ last.writer = "none"
                /\ last.raised = "none"
                /\ files = last.files_before
                /\ dirs = last.dirs_before
                /\ last.returned = last.result

\* C11 witness: a function returning an Image was called with the output bound to
\* nothing and its result came back to the caller, nothing written.
C11_Witness ==
    /\ last.op = "call"
    /\ cli.has_output
    /\ last.output = "None"
    /\ last.func_called
    /\ last.result = "Image"
    /\ last.returned = "Image"
    /\ files = last.files_before

\* The Image/Transform parameters of the function by declaration, in order.
DeclArtifactParams == SelectSeq(func.params, LAMBDA p : DeclArtifact(p.annotation))
DeclArtifactNames == { DeclArtifactParams[i].name : i \in 1..Len(DeclArtifactParams) }

\* C12: the parameter that drives output naming is the output_stem given to
\* create_batch_command if it names an Image/Transform parameter; if it is given
\* and names none, construction raises; if it is not given, it is the first
\* Image/Transform parameter in declaration order.
C12_OutputStemDriver ==
    bat.built =>
        /\ (bat.output_stem_arg \in DeclArtifactNames) =>
                /\ bat.output_stem = bat.output_stem_arg
                /\ bat.error \in {"none", "ValueError: signature"}
        /\ (bat.output_stem_arg # "None" /\ bat.output_stem_arg \notin DeclArtifactNames) =>
                /\ bat.error \in {"ValueError: output_stem not found",
                                  "ValueError: no Image or Transform parameter"}
                /\ bat.params = <<>>
        /\ (bat.output_stem_arg = "None" /\ Len(DeclArtifactParams) > 0) =>
                /\ bat.output_stem = DeclArtifactParams[1].name
                /\ bat.error \in {"none", "ValueError: signature"}

\* C12 witness: a batch command was built whose output naming is driven by the
\* second of two Image/Transform parameters, as asked.
C12_Witness ==
    /\ bat.built
    /\ bat.error = "none"
    /\ Len(DeclArtifactParams) = 2
    /\ bat.output_stem_arg = DeclArtifactParams[2].name
    /\ bat.output_stem = DeclArtifactParams[2].name

\* C13: create_batch_command on a function without Image/Transform parameter
\* raises the ValueError "must have at least one Image or Transform parameter";
\* no batch command is returned and the file system is untouched.
C13_NoArtifactParamFails ==
    (bat.built /\ Len(DeclArtifactParams) = 0) =>
        /\ bat.error = "ValueError: no Image or Transform parameter"
        /\ bat.params = <<>>
        /\ files = {}
        /\ dirs = {}
        /\ last = NoCall

\* C13 witness: construction failed for a function of two parameters, none of
\* them Image/Transform, although output_stem named one of them.
C13_Witness ==
    /\ bat.built
    /\ Len(func.params) = 2
    /\ Len(DeclArtifactParams) = 0
    /\ bat.output_stem_arg = func.params[2].name
    /\ bat.error = "ValueError: no Image or Transform parameter"

\* C14 (as claimed): the signature of a batch command has output_dir (required)
\* and output_template (named, defaulting to the template given at construction)
\* iff the function's return type is Image/Transform; neither otherwise.
C14_OutputParamsIffReturns ==
    (bat.built /\ bat.error = "none") =>
        IF ReturnsSitk(func.ret)
        THEN /\ HasParam(bat.params, OUTPUT_DIR_PARAM_NAME)
             /\ ParamNamed(bat.params, OUTPUT_DIR_PARAM_NAME).default = "Argument(...)"
             /\ HasParam(bat.params, "output_template")
        ELSE /\ ~HasParam(bat.params, OUTPUT_DIR_PARAM_NAME)
             /\ ~HasParam(bat.params, "output_template")

\* What the code does instead: output_dir is always there, output_template never.
C14_OutputDirAlways ==
    (bat.built /\ bat.error = "none") =>
        /\ HasParam(bat.params, OUTPUT_DIR_PARAM_NAME)
        /\ ~HasParam(bat.params, "output_template")

\* The extensions of a name, read off its characters: every dot-separated part
\* after the first one of the name without its leading dots.
HasDot(s) == \E i \in 1..Len(s) : s[i] = "."

\* C18: _get_stem_and_suffix splits every file name into (stem, suffix) with
\* stem + suffix equal to the name; the suffix is the concatenation of all
\* extensions: it is empty or starts with a dot, and what is left as the stem has
\* no extension of its own; brain_001.nii.gz gives (brain_001, .nii.gz),
\* image.nii gives (image, .nii).
C18_StemPlusSuffixIsName ==
    last.op = "_get_stem_and_suffix" =>
        /\ last.stem \o last.suffix = last.name
        /\ last.suffix = <<>> \/ Head(last.suffix) = "."
        /\ last.suffix # <<>> => ~HasDot(LStripDots(last.stem))
        /\ (last.suffix = <<>> /\ ~EndsWith(last.name, <<".">>))
                => ~HasDot(LStripDots(last.name))
        /\ last.name = Brain001 \o NII_GZ =>
                last.stem = Brain001 /\ last.suffix = NII_GZ
        /\ last.name = <<"i", "m", "a", "g", "e", ".", "n", "i", "i">> =>
                last.stem = <<"i", "m", "a", "g", "e">>

\* C18 witness: brain_001.nii.gz was split into brain_001 and .nii.gz.
C18_Witness ==
    /\ last.op = "_get_stem_and_suffix"
    /\ last.name = Brain001 \o NII_GZ
    /\ last.stem = Brain001
    /\ last.suffix = NII_GZ

\* A batch call, read off the arguments and the file system it started from.
BatchCall == last.op = "batch"
BoundParams == DOMAIN last.arg_map
BoundDirs == { pn \in BoundParams : last.arg_map[pn].name = <<>> }
BoundFiles == { pn \in BoundParams : last.arg_map[pn] \in last.files_before }
MissingArgs == BoundParams \ (BoundDirs \cup BoundFiles)

DeclTransform(pn) ==
    DeclStripped(ParamNamed(func.params, pn).annotation).args[1]
        \in {"Transform", "AffineTransform"}
DeclOptional(pn) ==
    \/ ParamNamed(func.params, pn).default # "empty"
    \/ DeclUnionWithNone(ParamNamed(func.params, pn).annotation)

\* The names of the files a directory-bound parameter discovers.
Discovered(pn) ==
    { f.name : f \in { g \in last.files_before :
        /\ g.dir = last.arg_map[pn].dir
        /\ EndsWith(g.name, IF DeclTransform(pn) THEN TFM ELSE NII_GZ) } }

\* Stem key and full suffix of a name that does not start with a dot: the name
\* is cut at its first dot.
FirstDot(name) ==
    IF \E i \in 1..Len(name) : name[i] = "."
    THEN CHOOSE i \in 1..Len(name) : name[i] = "." /\ \A j \in 1..(i - 1) : name[j] # "."
    ELSE Len(name) + 1
KeyOf(name) == SubSeq(name, 1, FirstDot(name) - 1)
FullSuffixOf(name) == SubSeq(name, FirstDot(name), Len(name))

StemKeys(pn) == { KeyOf(n) : n \in Discovered(pn) }
RequiredDirs == { pn \in BoundDirs : ~DeclOptional(pn) }
EmptyDirs == { pn \in BoundDirs : Discovered(pn) = {} }

\* The call got as far as matching the files of its directories.
MatchingCall == BatchCall /\ MissingArgs = {} /\ EmptyDirs = {} /\ BoundDirs # {}

CompleteKeys ==
    { st \in UNION { StemKeys(pn) : pn \in BoundDirs } :
        \A pn \in RequiredDirs : st \in StemKeys(pn) }

StemsOf(groups) == [k \in 1..Len(groups) |-> groups[k].stem]

\* C15: with directory-bound parameters, the stems the call sets out to process
\* are, each once, exactly the stems for which every required directory-bound
\* parameter has a file; the groups processed are these (all of them when the
\* call does not raise).  Two required directories holding {a, b} and {a, c}
\* give the one group a.
C15_CompleteMatchIffAllRequired ==
    MatchingCall =>
        /\ Range(StemsOf(last.matches)) = CompleteKeys
        /\ Len(last.matches) = Cardinality(CompleteKeys)
        /\ last.total = Cardinality(CompleteKeys)
        /\ Len(last.groups) <= Len(last.matches)
        /\ StemsOf(last.groups) = SubSeq(StemsOf(last.matches), 1, Len(last.groups))
        /\ last.raised = "none" => Len(last.groups) = Len(last.matches)
        /\ CompleteKeys = {} => last.soft # "none"

\* C15 witness: add_images over dir1 = {a, b} and dir2 = {a, c} processed the
\* one group a.
C15_Witness ==
    /\ BatchCall
    /\ func = add_images
    /\ BoundDirs = {"fixed", "moving"}
    /\ StemKeys("fixed") = {<<"a">>, <<"b">>}
    /\ StemKeys("moving") = {<<"a">>, <<"c">>}
    /\ last.raised = "none"
    /\ StemsOf(last.groups) = << <<"a">> >>

\* The scenario of C16: the required first parameter is bound to a directory
\* holding a and b, the optional mask to a directory holding a and c.
OptionalMaskScenario ==
    /\ BatchCall
    /\ func = register_with_optional_mask
    /\ bat.output_stem = "fixed"
    /\ BoundDirs = {"fixed", "fixed_mask"}
    /\ BoundFiles = {"moving"}
    /\ Discovered("fixed") = {<<"a">> \o NII_GZ, <<"b">> \o NII_GZ}
    /\ Discovered("fixed_mask") = {<<"a">> \o NII_GZ, <<"c">> \o NII_GZ}

\* C16 (as claimed): the scenario yields three groups: a with both files, b and c
\* each with only the first parameter's file.
C16_ThreeGroups ==
    OptionalMaskScenario =>
        /\ Len(last.groups) = 3
        /\ Range(StemsOf(last.groups)) = {<<"a">>, <<"b">>, <<"c">>}

\* C16 (amended): the scenario yields two groups: a with the files of both
\* directories and b with only the first parameter's file; c, for which the
\* required first parameter has no file, is dropped.
C16_TwoGroups ==
    OptionalMaskScenario =>
        /\ last.raised = "none"
        /\ StemsOf(last.groups) = << <<"a">>, <<"b">> >>
        /\ last.groups[1].files =
                [pn \in {"fixed", "moving", "fixed_mask"} |->
                    IF pn = "fixed" THEN File("dir1", <<"a">> \o NII_GZ)
                    ELSE IF pn = "moving" THEN ReferenceFile
                    ELSE File("dir2", <<"a">> \o NII_GZ)]
        /\ last.groups[2].files =
                [pn \in {"fixed", "moving"} |->
                    IF pn = "fixed" THEN File("dir1", <<"b">> \o NII_GZ)
                    ELSE ReferenceFile]

\* C16 witness: the scenario happened and the function was called for two groups.
C16_Witness ==
    /\ OptionalMaskScenario
    /\ last.result = "Transform"
    /\ Len(last.groups) = 2
    /\ last.groups[2].func_args = {"fixed", "moving"}

INVERTED == <<"i", "n", "v", "e", "r", "t", "e", "d", "_">>

\* The file of a processed group that is bound to the output-stem parameter.
StemFile(g) == g.files[bat.output_stem]

\* The output name the template asks for, template by template.
ExpectedName(g) ==
    CASE bat.output_template = DefaultTemplate ->
            g.stem \o FullSuffixOf(StemFile(g).name)
      [] bat.output_template = INVERTED \o <<"{stem}", "{suffix}">> ->
            INVERTED \o g.stem \o FullSuffixOf(StemFile(g).name)
      [] bat.output_template = <<"{stem}">> \o TFM ->
            g.stem \o TFM
      [] bat.output_template = <<"x", "_", "{name}">> ->
            <<"x", "_">> \o StemFile(g).name

\* C17: for every processed group the output path is the output directory joined
\* with the template in which {stem} is the stem key of the group, {suffix} the
\* full suffix of the file bound to the output-stem parameter and {name} that
\* file's name; a result is written there.  "inverted_{stem}{suffix}" over
\* brain_001.nii.gz gives inverted_brain_001.nii.gz.
C17_OutputPathFromTemplate ==
    BatchCall =>
        \A k \in 1..Len(last.groups) :
            LET g == last.groups[k]
            IN  /\ g.stem \in CompleteKeys \cup {SINGLE}
                /\ g.output_path = File("output", ExpectedName(g))
                /\ g.writer # "none" => g.output_path \in files
                /\ (/\ bat.output_template = INVERTED \o <<"{stem}", "{suffix}">>
                    /\ StemFile(g) = File("dir1", Brain001 \o NII_GZ))
                    => g.output_path.name = INVERTED \o Brain001 \o NII_GZ

\* C17 witness: the directory with brain_001.nii.gz was processed under the
\* template "inverted_{stem}{suffix}" and inverted_brain_001.nii.gz written.
C17_Witness ==
    /\ BatchCall
    /\ bat.output_template = INVERTED \o <<"{stem}", "{suffix}">>
    /\ Len(last.groups) = 1
    /\ StemFile(last.groups[1]) = File("dir1", Brain001 \o NII_GZ)
    /\ File("output", INVERTED \o Brain001 \o NII_GZ) \in files

\* C19 (as claimed): with the default template the output file of every processed
\* group has the name of the file bound to the output-stem parameter, whether
\* that parameter is bound to a directory or to a single file.
C19_InputNamePreserved ==
    (BatchCall /\ bat.output_template = DefaultTemplate) =>
        \A k \in 1..Len(last.groups) :
            last.groups[k].output_path.name = StemFile(last.groups[k]).name

\* C19 (amended): with the default template the output file of a processed group
\* has the name of the file bound to the output-stem parameter when that
\* parameter is bound to a directory; when it is bound to a single file the name
\* is the stem key of the group ("single" when no parameter is bound to a
\* directory) followed by the suffix of that file.
C19_NamePreservedForDirectory ==
    (BatchCall /\ bat.output_template = DefaultTemplate) =>
        \A k \in 1..Len(last.groups) :
            LET g == last.groups[k]
            IN  /\ bat.output_stem \in BoundDirs =>
                    g.output_path.name = StemFile(g).name
                /\ bat.output_stem \in BoundFiles =>
                    /\ g.output_path.name = g.stem \o FullSuffixOf(StemFile(g).name)
                    /\ g.stem = IF BoundDirs = {} THEN SINGLE
                                ELSE KeyOf(g.files[CHOOSE pn \in BoundDirs :
                                                    pn \in DOMAIN g.files].name)

\* C19 witness: add_images with output_stem "moving", a single file for fixed and
\* a directory for moving: the outputs are named like the moving images.
C19_Witness ==
    /\ BatchCall
    /\ func = add_images
    /\ bat.output_template = DefaultTemplate
    /\ bat.output_stem = "moving"
    /\ BoundFiles = {"fixed"}
    /\ BoundDirs = {"moving"}
    /\ Len(last.groups) = 2
    /\ last.result = "Image"
    /\ \A k \in 1..2 :
            File("output", last.groups[k].files["moving"].name) \in files

\* The three soft failures, read off the arguments and the directories.
NoFilesInDirectory == BatchCall /\ MissingArgs = {} /\ EmptyDirs # {}
NoCompleteMatch == MatchingCall /\ CompleteKeys = {}
NoInputBound == BatchCall /\ BoundParams = {}

\* C20: a globbed directory without matching file, no complete stem match across
\* the directories, or no input bound at all each end the call early: it returns
\* without raising, the function is not invoked, nothing is written and the
\* output directory is not created; and a call that ends this way has done none
\* of these.
C20_SoftFailureNoWork ==
    /\ NoFilesInDirectory => last.soft = "No files found matching"
    /\ NoCompleteMatch => last.soft = "No matching files found across directory inputs"
    /\ NoInputBound => last.soft = "No input files provided"
    /\ (BatchCall /\ last.soft # "none") =>
            /\ last.raised = "none"
            /\ last.groups = <<>>
            /\ ~last.completed
            /\ ~last.made_dir
            /\ files = last.files_before
            /\ dirs = last.dirs_before
            /\ OutputDir.dir \notin dirs

\* C20 witness: two directories with files but without a common stem: the call
\* returned without work.
C20_Witness ==
    /\ NoCompleteMatch
    /\ Cardinality(BoundDirs) = 2
    /\ last.soft = "No matching files found across directory inputs"
    /\ last.raised = "none"
    /\ OutputDir.dir \notin dirs

\* C21 (as claimed): a batch call with an Image/Transform argument bound to a
\* path that is neither a file nor a directory raises FileNotFoundError and
\* processes no group, whatever the other arguments are bound to.
C21_MissingPathAlwaysFatal ==
    (BatchCall /\ MissingArgs # {}) =>
        /\ last.raised = "FileNotFoundError"
        /\ last.groups = <<>>
        /\ files = last.files_before

\* What the code does: the missing path is fatal unless a parameter declared
\* before it is bound to a directory without matching file.
C21_FatalUnlessEmptyDirectoryFirst ==
    (BatchCall /\ MissingArgs # {}) =>
        /\ last.groups = <<>>
        /\ files = last.files_before
        /\ last.raised = "FileNotFoundError" \/ last.soft = "No files found matching"
        /\ EmptyDirs = {} => last.raised = "FileNotFoundError"

\* C22 (as claimed): the groups of a batch call are processed in ascending order
\* of their stem keys; a call without directory-bound parameter processes the
\* single implicit group.
C22_AscendingStemOrder ==
    BatchCall =>
        /\ \A i, j \in 1..Len(last.groups) :
                i < j => NameLess(last.groups[i].stem, last.groups[j].stem)
        /\ (BoundDirs = {} /\ last.groups # <<>>) => StemsOf(last.groups) = <<SINGLE>>

\* C23 (as claimed): every group of a batch call has a file for the output-stem
\* parameter, so that deriving the output name never fails with a KeyError,
\* also when the output-stem parameter is optional and unbound or without file
\* for some stem.
C23_OutputStemFileInEveryGroup ==
    BatchCall =>
        /\ last.raised # "KeyError"
        /\ \A k \in 1..Len(last.matches) :
                bat.output_stem \in BoundFiles \cup DOMAIN last.matches[k].files

\* The positions of the events of one kind for group i in the last batch call.
EventsOf(kind, i) ==
    { p \in 1..Len(last.events) : last.events[p].ev = kind /\ last.events[p].idx = i }

\* The place of an event within the handling of its group.
EventRank(e) ==
    CASE e.ev = "mkdir" -> 0
      [] e.ev = "progress" -> 1
      [] e.ev = "load" -> 2
      [] e.ev = "call" -> 3
      [] e.ev = "write" -> 4
      [] e.ev = "completed" -> 5

\* Events are in the order of their groups, and within a group in the order
\* progress, load, call, write; the directory is created first.
EventsSequential ==
    /\ EventsOf("mkdir", 0) = {1}
    /\ \A p, q \in 1..Len(last.events) :
            p < q =>
                \/ last.events[p].idx < last.events[q].idx
                \/ /\ last.events[p].idx = last.events[q].idx
                   /\ EventRank(last.events[p]) < EventRank(last.events[q])
    /\ \A p \in 1..Len(last.events) : last.events[p].total = Len(last.matches)

\* Group i was handled in full: one progress line, one load, one call, and a
\* write when there is a result.
HandledOnce(i) ==
    /\ Cardinality(EventsOf("progress", i)) = 1
    /\ Cardinality(EventsOf("load", i)) = 1
    /\ Cardinality(EventsOf("call", i)) = 1
    /\ Cardinality(EventsOf("write", i)) = (IF last.result = "None" THEN 0 ELSE 1)

\* C24 (as claimed): a batch call that reaches its loop creates the output
\* directory first, then handles group 1..total one after the other, each with
\* its progress line '[i/total]', load, call and write before anything of the
\* next group, total being the number of complete groups, and it emits the
\* completion summary after the last group.
C24_GroupsOneAfterTheOther ==
    (BatchCall /\ last.made_dir) =>
        /\ EventsSequential
        /\ \A i \in 1..Len(last.matches) : HandledOnce(i)
        /\ EventsOf("completed", Len(last.matches) + 1) = {Len(last.events)}

\* What the code does: the same for the groups handled before the call ends; a
\* call that raises for lack of an output-stem file ends without the groups
\* that remain and without completion summary.
C24_HandledGroupsOneAfterTheOther ==
    (BatchCall /\ last.made_dir) =>
        /\ EventsSequential
        /\ \A i \in 1..Len(last.groups) : HandledOnce(i)
        /\ \A i \in (Len(last.groups) + 1)..Len(last.matches) :
                EventsOf("progress", i) \cup EventsOf("call", i) = {}
        /\ IF last.raised = "none"
           THEN /\ Len(last.groups) = Len(last.matches)
                /\ EventsOf("completed", Len(last.matches) + 1) = {Len(last.events)}
           ELSE \A p \in 1..Len(last.events) : last.events[p].ev # "completed"

\* The function is invoked for group k of the last batch call with every
\* single-file parameter bound to the file of the call, every directory-bound
\* parameter of the match bound to the matched file, and the other keyword
\* arguments of the call.
InvokedWithGroup(k) ==
    LET g == last.groups[k]
        m == last.matches[k]
    IN  /\ g.stem = m.stem
        /\ DOMAIN g.files = BoundFiles \cup DOMAIN m.files
        /\ \A pn \in BoundFiles : g.files[pn] = last.arg_map[pn]
        /\ \A pn \in DOMAIN m.files : g.files[pn] = m.files[pn]
        /\ g.func_args = DOMAIN g.files \cup last.kwargs
        /\ Cardinality(EventsOf("call", k)) = 1

\* C25 (as claimed): a batch call that reaches its loop invokes the function
\* exactly once per complete group, exactly once in total when every bound
\* Image/Transform argument is a single file, each time with the single files of
\* the call, the matched files of the group and the other keyword arguments.
C25_OneInvocationPerGroup ==
    (BatchCall /\ last.made_dir) =>
        /\ Len(last.groups) = Len(last.matches)
        /\ BoundDirs = {} => Len(last.groups) = 1
        /\ \A k \in 1..Len(last.groups) : InvokedWithGroup(k)
        /\ \A p \in 1..Len(last.events) :
                last.events[p].ev = "call" => last.events[p].idx \in 1..Len(last.matches)

\* What the code does: the same for the groups handled before the call ends; a
\* call that raises for lack of an output-stem file leaves the group that
\* raised and the groups after it without invocation.
C25_OneInvocationPerHandledGroup ==
    (BatchCall /\ last.made_dir) =>
        /\ last.raised = "none" => Len(last.groups) = Len(last.matches)
        /\ (BoundDirs = {} /\ last.raised = "none") => Len(last.groups) = 1
        /\ \A k \in 1..Len(last.groups) : InvokedWithGroup(k)
        /\ \A p \in 1..Len(last.events) :
                last.events[p].ev = "call" => last.events[p].idx \in 1..Len(last.groups)

\* No positional-or-keyword parameter stands after a keyword-only one.
WellOrdered(ps) ==
    \A i, j \in 1..Len(ps) :
        i < j => ~(ps[i].kind = "KEYWORD_ONLY" /\ ps[j].kind = "POSITIONAL_OR_KEYWORD")

\* The function declares a positional and a keyword-only parameter.
MixesKinds(f) ==
    /\ \E i \in 1..Len(f.params) : f.params[i].kind = "POSITIONAL_OR_KEYWORD"
    /\ \E i \in 1..Len(f.params) : f.params[i].kind = "KEYWORD_ONLY"

\* C26 (as claimed): for every function and every setting of verbose and
\* overwrite the parameter list build_cli_signature produces is well-ordered,
\* and building the signature from it raises nothing.
C26_SignatureWellOrdered ==
    sig.built =>
        /\ WellOrdered(sig.params)
        /\ sig.error = "none"

\* What the code does: the list is well-ordered when the function does not mix
\* positional and keyword-only parameters, or when neither flag is appended.
C26_WellOrderedWithoutFlagsOrMix ==
    (sig.built /\ (~MixesKinds(func) \/ (~opts.verbose /\ opts.overwrite = "True"))) =>
        /\ WellOrdered(sig.params)
        /\ sig.error = "none"

\* The function declares a parameter without default that is no Image/Transform
\* parameter after an Image/Transform parameter, both positional.
RequiredPlainAfterArtifact ==
    \E i, j \in 1..Len(func.params) :
        /\ i < j
        /\ func.params[i].name \in DeclArtifactNames
        /\ func.params[j].name \notin DeclArtifactNames
        /\ func.params[j].kind = "POSITIONAL_OR_KEYWORD"
        /\ func.params[j].default = "empty"

\* C27 (as claimed): create_batch_command raises only when the function has no
\* Image/Transform parameter or output_stem names none; for every other
\* function it returns a batch command.
C27_ConstructionFailsOnlyOnConfiguration ==
    bat.built =>
        (bat.error # "none" <=>
            \/ Len(DeclArtifactParams) = 0
            \/ bat.output_stem \notin DeclArtifactNames)

\* What the code does: it also raises when the new parameter list has a
\* parameter without default after the Path parameters, which all have one.
C27_FailsAlsoOnRequiredPlainParameter ==
    bat.built =>
        (bat.error # "none" <=>
            \/ Len(DeclArtifactParams) = 0
            \/ bat.output_stem \notin DeclArtifactNames
            \/ RequiredPlainAfterArtifact)

\* The groups of the last batch call in which parameter pn was bound to the
\* file of the given name of its directory.
GroupsPassing(pn, name) ==
    { k \in 1..Len(last.groups) :
        /\ pn \in DOMAIN last.groups[k].files
        /\ last.groups[k].files[pn] = File(last.arg_map[pn].dir, name) }

\* C28 (as claimed): in a batch call that handles all its groups, every file
\* discovered in the directory of a required directory-bound parameter whose
\* stem key is a complete match is passed to the function in exactly one group.
C28_EveryMatchedFileProcessed ==
    (MatchingCall /\ last.raised = "none") =>
        \A pn \in RequiredDirs : \A name \in Discovered(pn) :
            KeyOf(name) \in CompleteKeys => Cardinality(GroupsPassing(pn, name)) = 1

\* What the code does: of the files of one directory that share a stem key, one
\* is passed - the last in file-name order - and every file is passed at most
\* once.
C28_OneFilePerStemKey ==
    (MatchingCall /\ last.raised = "none") =>
        \A pn \in RequiredDirs : \A name \in Discovered(pn) :
            /\ Cardinality(GroupsPassing(pn, name)) <= 1
            /\ KeyOf(name) \in CompleteKeys =>
                \E other \in Discovered(pn) :
                    /\ KeyOf(other) = KeyOf(name)
                    /\ Cardinality(GroupsPassing(pn, other)) = 1
                    /\ other = name \/ NameLess(name, other)

\* The files the last batch call added to the file system.
NewFiles == files \ last.files_before

\* C29: within one batch call of a command built with the default template
\* '{stem}{suffix}', no two processed groups have the same output path, and when
\* the function returns a result every processed group leaves a file of its own.
C29_DistinctOutputPaths ==
    (BatchCall /\ bat.output_template = DefaultTemplate) =>
        /\ \A i, j \in 1..Len(last.groups) :
                i # j => last.groups[i].output_path # last.groups[j].output_path
        /\ last.result # "None" =>
                /\ NewFiles = { last.groups[k].output_path : k \in 1..Len(last.groups) }
                /\ Cardinality(NewFiles) = Len(last.groups)

\* C29 witness: a call with the default template processed two groups and wrote
\* a result for each.
C29_Witness ==
    /\ BatchCall
    /\ bat.output_template = DefaultTemplate
    /\ last.raised = "none"
    /\ last.result # "None"
    /\ Len(last.groups) = 2
    /\ Cardinality(NewFiles) = 2

\* A call whose write the wrapper has to refuse: the inputs exist, the function
\* returns a result for an output path that exists, force is not set, and the
\* policy is deny, or prompt with an answer that is not affirmative.
RefusedWriteCall ==
    /\ last.op = "call"
    /\ ~MissingInputCall
    /\ last.output # "None"
    /\ Truthy(last.result)
    /\ last.output_existed
    /\ ~last.force
    /\ \/ opts.overwrite = "False"
       \/ opts.overwrite = "prompt" /\ ~AffirmativeAnswer(last.response)

\* C30: when the wrapper refuses a write - FileExistsError under deny, a
\* declined confirmation under prompt - the function has been invoked, no
\* writer is called, and the files and directories are those before the call.
C30_RefusedWriteLeavesFilesAlone ==
    RefusedWriteCall =>
        /\ last.func_called
        /\ last.writer = "none"
        /\ files = last.files_before
        /\ dirs = last.dirs_before
        /\ last.output \in files
        /\ opts.overwrite = "False" => last.raised = "FileExistsError"
        /\ opts.overwrite = "prompt" => (last.raised = "none" /\ last.prompted)

\* C30 witness: with create_dirs enabled, a write to the existing file in the
\* directory an earlier call created was refused after the function was invoked.
C30_Witness ==
    /\ RefusedWriteCall
    /\ opts.create_dirs
    /\ last.output = "new/out.nii.gz"
    /\ last.func_called
    /\ last.writer = "none"
    /\ "new" \in dirs

====
